---- MODULE Spec2Model ----
(***************************************************************************)
(* Authentication and authorization core of the AI Smart Assistant         *)
(* Platform backend: the token service (auth/jwt_handler.py), the identity *)
(* resolver and access guard (dependencies.py) and the account routes      *)
(* (routes/auth.py) over the user table (models/user.py).                  *)
(*                                                                         *)
(* Strings are sequences of pieces: a piece is a run of text or the        *)
(* compact serialization of one JWT.  Optional values are sequences of     *)
(* length 0 (None) or 1.  A Python call either returns a value or raises.  *)
(***************************************************************************)
EXTENDS Integers, Sequences, FiniteSets, TLC

VARIABLES users, now, held, req, call, settings, inflight, providers

vars == <<users, now, held, req, call, settings, inflight, providers>>

(***************************************************************************)
(* Bounds of the model                                                     *)
(***************************************************************************)
\* largest primary key the user table hands out
MaxId == 2
\* number of clock ticks the model lets pass
MaxTime == 2
\* clock ticks per second: datetime values are finer than the whole seconds of exp
TicksPerSec == 2

(***************************************************************************)
(* Configuration and constants of the program                              *)
(***************************************************************************)
\* the secret config.py ships, and one an operator sets in the environment instead
DefaultSecret == "CHANGE_THIS_IN_PRODUCTION_USE_RANDOM_STRING"
RotatedSecret == "rotated-secret"
\* settings is loaded once when the process starts
JWT_SECRET == settings.JWT_SECRET
JWT_ALGORITHM == "HS256"
ACCESS_TOKEN_EXPIRE_MINUTES == 1440
HTTP_401_UNAUTHORIZED == 401
HTTP_403_FORBIDDEN == 403
HTTP_400_BAD_REQUEST == 400

GUEST == "guest"
USER == "user"
ADMIN == "admin"
UserRole == {GUEST, USER, ADMIN}

\* the clock reading when the model starts, and the readings it can reach
StartTime == 2 * TicksPerSec
Times == StartTime .. (StartTime + MaxTime)

Emails == {"a@b.com", "c@d.com"}
\* passwords are sequences of characters
StrongPassword == <<"S", "t", "r", "o", "n", "g", "P", "@", "s", "s", "1", "2", "3">>
RootPassword == <<"R", "o", "o", "t", "P", "@", "s", "s", "1">>
Passwords == {StrongPassword}
Salts == {"salt1"}

(***************************************************************************)
(* Python values                                                           *)
(***************************************************************************)
None == <<>>
Some(v) == <<v>>
Return(v) == [raised |-> FALSE, value |-> v]
Raise(e) == [raised |-> TRUE, exc |-> e]

NoDetailRoles == {}
HTTPException(status_code, detail, roles, headers) ==
    [class |-> "HTTPException", status_code |-> status_code, detail |-> detail,
     roles |-> roles, headers |-> headers]
LibraryError(class) ==
    [class |-> class, status_code |-> 0, detail |-> "", roles |-> NoDetailRoles, headers |-> ""]

Max(S) == CHOOSE m \in S : \A x \in S : x <= m

(***************************************************************************)
(* Strings                                                                 *)
(***************************************************************************)
Text(s) == [kind |-> "text", text |-> s]
SP == Text(" ")
BearerWord == Text("Bearer")
bearerWord == Text("bearer")
BasicWord == Text("Basic")

\* str.lower(), on the words the model knows
Lower(s) == [i \in DOMAIN s |-> IF s[i] = BearerWord THEN bearerWord ELSE s[i]]

\* str.startswith("Bearer ")
StartsWithBearerSp(s) == Len(s) >= 2 /\ s[1] = BearerWord /\ s[2] = SP

\* position of the first space of s, 0 when it has none
FirstSpace(s) ==
    IF \E i \in DOMAIN s : s[i] = SP
    THEN CHOOSE i \in DOMAIN s : s[i] = SP /\ \A j \in 1..(i - 1) : s[j] # SP
    ELSE 0

\* str.split(" "): the parts between single spaces, empty parts included
RECURSIVE Split(_)
Split(s) ==
    LET i == FirstSpace(s) IN
    IF i = 0 THEN <<s>>
    ELSE <<SubSeq(s, 1, i - 1)>> \o Split(SubSeq(s, i + 1, Len(s)))

\* str.partition(" "): what precedes the first space, and what follows it
Partition(s) ==
    LET i == FirstSpace(s) IN
    IF i = 0 THEN [scheme |-> s, param |-> <<>>]
    ELSE [scheme |-> SubSeq(s, 1, i - 1), param |-> SubSeq(s, i + 1, Len(s))]

(***************************************************************************)
(* Token service: auth/jwt_handler.py over jose.jwt                        *)
(***************************************************************************)
\* datetime -> whole seconds since the epoch (timegm of a utctimetuple)
UnixTime(t) == t \div TicksPerSec

\* timedelta(minutes = ACCESS_TOKEN_EXPIRE_MINUTES), in ticks
DefaultLifetime == ACCESS_TOKEN_EXPIRE_MINUTES * 60 * TicksPerSec

\* HMAC of the signing input under a key
Sign(key, alg, payload) == [key |-> key, alg |-> alg, payload |-> payload]

\* The signature segment is the base64url text of the 32 bytes of the HMAC: 43
\* characters, the last of which carries 4 bits of the HMAC and 2 bits that belong to
\* no byte.  slack is the value of those 2 bits; the encoder writes 0.
UnusedBitValues == 4
JwtPiece(alg, payload, sig) ==
    [kind |-> "jwt", alg |-> alg, payload |-> payload, sig |-> sig, slack |-> 0]

\* jwt.encode: datetime claims become whole seconds, then header.payload.signature
jwt_encode(claims, key, algorithm) ==
    LET payload == [k \in DOMAIN claims |->
                      IF k = "exp" THEN UnixTime(claims[k]) ELSE claims[k]]
    IN  <<JwtPiece(algorithm, payload, Sign(key, algorithm, payload))>>

\* jwt.decode at clock reading t, called without an audience: structure, algorithm,
\* signature, then exp, then aud (a token that carries an aud claim is refused when
\* the caller names no audience).  The signature is compared as bytes: base64url
\* decoding drops the bits of the last character that belong to no byte (slack).
jwt_decode(token, key, algorithms, t) ==
    IF Len(token) # 1 \/ token[1].kind # "jwt"
    THEN Raise(LibraryError("JWTError"))
    ELSE LET j == token[1] IN
         IF j.alg \notin algorithms THEN Raise(LibraryError("JWTError"))
         ELSE IF j.sig # Sign(key, j.alg, j.payload) THEN Raise(LibraryError("JWTError"))
         ELSE IF "exp" \in DOMAIN j.payload /\ j.payload.exp < UnixTime(t)
              THEN Raise(LibraryError("ExpiredSignatureError"))
         ELSE IF "aud" \in DOMAIN j.payload THEN Raise(LibraryError("JWTClaimsError"))
         ELSE Return(j.payload)

\* JWTError and the classes derived from it
JWTErrorClasses == {"JWTError", "ExpiredSignatureError", "JWTClaimsError"}

\* expires_delta is None (<<>>) or a timedelta in ticks (<<d>>); timedelta(0) is falsy
create_access_token(data, expires_delta, t) ==
    LET expire == IF expires_delta # None /\ expires_delta[1] # 0
                  THEN t + expires_delta[1]
                  ELSE t + DefaultLifetime
        to_encode == [k \in (DOMAIN data) \cup {"exp"} |->
                        IF k = "exp" THEN expire ELSE data[k]]
    IN  jwt_encode(to_encode, JWT_SECRET, JWT_ALGORITHM)

\* to_encode = data.copy() binds to_encode to a dict of its own
to_encode_AliasesData(obj) == obj

\* the dict object the name to_encode is bound to, given the object data names
to_encode_object(obj) == "to_encode"

\* The dict objects after a call of create_access_token: the caller's mapping (object
\* "data") and the one to_encode names.  update() writes exp into the object
\* to_encode names, and jwt.encode replaces that datetime by whole seconds in the
\* same object.
create_access_token_objects(data, expires_delta, t) ==
    LET ref == to_encode_object("data")
        expire == IF expires_delta # None /\ expires_delta[1] # 0
                  THEN t + expires_delta[1]
                  ELSE t + DefaultLifetime
        copied == [o \in {"data", ref} |-> data]
        updated == [copied EXCEPT ![ref] =
                       [k \in (DOMAIN data) \cup {"exp"} |->
                           IF k = "exp" THEN expire ELSE data[k]]]
    IN  [updated EXCEPT ![ref].exp = UnixTime(@)]

\* verify_token with an except clause that catches ExpiredSignatureError alone
verify_token_CatchesExpiryOnly(token, t) ==
    LET d == jwt_decode(token, JWT_SECRET, {JWT_ALGORITHM}, t) IN
    IF ~d.raised THEN Return(Some(d.value))
    ELSE IF d.exc.class = "ExpiredSignatureError" THEN Return(None)
    ELSE d

\* Some(payload) when the token is valid, None when jwt.decode raises a JWTError
verify_token(token, t) ==
    LET d == jwt_decode(token, JWT_SECRET, {JWT_ALGORITHM}, t) IN
    IF ~d.raised THEN Return(Some(d.value))
    ELSE IF d.exc.class \in JWTErrorClasses THEN Return(None)
    ELSE d

\* dict.get(key): Some(value) or None
Get(payload, key) == IF key \in DOMAIN payload THEN Some(payload[key]) ELSE None

\* truth value of an optional dict, and of an optional integer
TruthyDict(p) == p # None /\ DOMAIN p[1] # {}
TruthyInt(v) == v # None /\ v[1] # 0

\* extract_user_id that tests the user_id for truth before returning it
extract_user_id_FalsyIsNone(token, t) ==
    LET r == verify_token(token, t) IN
    IF r.raised THEN r
    ELSE IF TruthyDict(r.value) /\ TruthyInt(Get(r.value[1], "user_id"))
    THEN Return(Get(r.value[1], "user_id"))
    ELSE Return(None)

extract_user_id(token, t) ==
    LET r == verify_token(token, t) IN
    IF r.raised THEN r
    ELSE IF TruthyDict(r.value) THEN Return(Get(r.value[1], "user_id"))
    ELSE Return(None)

\* create_user_token with a fourth claim, sub, beside the three
create_user_token_AddsSub(user_id, email, role, t) ==
    create_access_token([user_id |-> user_id, email |-> email, role |-> role,
                         sub |-> email], None, t)

create_user_token(user_id, email, role, t) ==
    create_access_token([user_id |-> user_id, email |-> email, role |-> role], None, t)

(***************************************************************************)
(* Password manager: auth/password.py over passlib's bcrypt context        *)
(***************************************************************************)
\* bcrypt reads the first 72 bytes of a password and no more
BCRYPT_MAX_BYTES == 72
Truncated(password) ==
    IF Len(password) > BCRYPT_MAX_BYTES THEN SubSeq(password, 1, BCRYPT_MAX_BYTES)
    ELSE password

\* hash_password without a salt: the hash is a function of the password alone
hash_password_Unsalted(password, salt) ==
    [salt |-> "", digest |-> <<"", Truncated(password)>>]

\* pwd_context.hash draws a salt and stores it in the hash
hash_password(password, salt) ==
    [salt |-> salt, digest |-> <<salt, Truncated(password)>>]

\* pwd_context.verify hashes the plain password with the salt of the stored hash
verify_password(plain_password, hashed_password) ==
    hashed_password.digest = <<hashed_password.salt, Truncated(plain_password)>>

\* the character classes of the regular expressions
UpperClass ==
    {"A", "B", "C", "D", "E", "F", "G", "H", "I", "J", "K", "L", "M",
     "N", "O", "P", "Q", "R", "S", "T", "U", "V", "W", "X", "Y", "Z"}
LowerClass ==
    {"a", "b", "c", "d", "e", "f", "g", "h", "i", "j", "k", "l", "m",
     "n", "o", "p", "q", "r", "s", "t", "u", "v", "w", "x", "y", "z"}
DigitClass == {"0", "1", "2", "3", "4", "5", "6", "7", "8", "9"}
SpecialClass ==
    {"!", "@", "#", "$", "%", "^", "&", "*", "(", ")", ",", ".", "?", "\"", ":",
     "{", "}", "|", "<", ">"}

\* re.search(r"[...]", password) finds a character of the class
re_search(class, password) == \E i \in DOMAIN password : password[i] \in class

MIN_PASSWORD_LENGTH == 8

\* validate_password_strength that looks for a digit before a lowercase letter
validate_password_strength_DigitFirst(password) ==
    IF Len(password) < MIN_PASSWORD_LENGTH
    THEN <<FALSE, "Password must be at least 8 characters long">>
    ELSE IF ~re_search(UpperClass, password)
    THEN <<FALSE, "Password must contain at least one uppercase letter">>
    ELSE IF ~re_search(DigitClass, password)
    THEN <<FALSE, "Password must contain at least one number">>
    ELSE IF ~re_search(LowerClass, password)
    THEN <<FALSE, "Password must contain at least one lowercase letter">>
    ELSE IF ~re_search(SpecialClass, password)
    THEN <<FALSE, "Password must contain at least one special character">>
    ELSE <<TRUE, "">>

\* the tuple (is_valid, error_message)
validate_password_strength(password) ==
    IF Len(password) < MIN_PASSWORD_LENGTH
    THEN <<FALSE, "Password must be at least 8 characters long">>
    ELSE IF ~re_search(UpperClass, password)
    THEN <<FALSE, "Password must contain at least one uppercase letter">>
    ELSE IF ~re_search(LowerClass, password)
    THEN <<FALSE, "Password must contain at least one lowercase letter">>
    ELSE IF ~re_search(DigitClass, password)
    THEN <<FALSE, "Password must contain at least one number">>
    ELSE IF ~re_search(SpecialClass, password)
    THEN <<FALSE, "Password must contain at least one special character">>
    ELSE <<TRUE, "">>

(***************************************************************************)
(* User table: models/user.py                                              *)
(***************************************************************************)
User(id, email, password_hash, role) ==
    [id |-> id, email |-> email, password_hash |-> password_hash, role |-> role]

\* db.query(User).filter(User.id == user_id).first()
FindById(table, user_id) ==
    IF user_id \in DOMAIN table THEN Some(table[user_id]) ELSE None

\* db.query(User).filter(User.email == email).first()
FindByEmail(table, email) ==
    IF \E i \in DOMAIN table : table[i].email = email
    THEN Some(table[CHOOSE i \in DOMAIN table : table[i].email = email])
    ELSE None

\* INTEGER PRIMARY KEY of the SQLite table: one more than the largest rowid
NextRowId(table) == IF DOMAIN table = {} THEN 1 ELSE Max(DOMAIN table) + 1

(***************************************************************************)
(* Identity resolver and access guard: dependencies.py                     *)
(***************************************************************************)
WWWAuthenticateBearer == "WWW-Authenticate: Bearer"
NoHeaders == ""

\* An Authorization header: absent, or present with a value
NoAuthorization == [present |-> FALSE, value |-> <<>>]
Authorization(value) == [present |-> TRUE, value |-> value]

\* What fastapi.security.HTTPBearer answers a request it turns away: 403 without
\* headers in the releases before 0.122, 401 with WWW-Authenticate: Bearer since
BearerRefusals == {[status_code |-> HTTP_403_FORBIDDEN, headers |-> NoHeaders],
                   [status_code |-> HTTP_401_UNAUTHORIZED, headers |-> WWWAuthenticateBearer]}

\* security = HTTPBearer(): the credentials of "Authorization: <scheme> <credentials>"
HTTPBearer(authorization, refusal) ==
    LET p == Partition(authorization.value) IN
    IF ~(authorization.present /\ authorization.value # <<>>
         /\ p.scheme # <<>> /\ p.param # <<>>)
    THEN Raise(HTTPException(refusal.status_code, "Not authenticated",
                             NoDetailRoles, refusal.headers))
    ELSE IF Lower(p.scheme) # <<bearerWord>>
    THEN Raise(HTTPException(refusal.status_code, "Invalid authentication credentials",
                             NoDetailRoles, refusal.headers))
    ELSE Return(p.param)

\* get_current_user that hands the route the role claim of the token in place of the
\* stored role
get_current_user_TrustsTokenRole(credentials, table, t) ==
    LET payload == verify_token(credentials, t) IN
    IF payload.raised THEN payload
    ELSE IF ~TruthyDict(payload.value)
    THEN Raise(HTTPException(HTTP_401_UNAUTHORIZED, "Invalid or expired token",
                             NoDetailRoles, WWWAuthenticateBearer))
    ELSE LET user_id == Get(payload.value[1], "user_id") IN
         IF ~TruthyInt(user_id)
         THEN Raise(HTTPException(HTTP_401_UNAUTHORIZED, "Invalid token payload",
                                  NoDetailRoles, WWWAuthenticateBearer))
         ELSE LET user == FindById(table, user_id[1]) IN
              IF user = None
              THEN Raise(HTTPException(HTTP_401_UNAUTHORIZED, "User not found",
                                       NoDetailRoles, WWWAuthenticateBearer))
              ELSE IF "role" \in DOMAIN payload.value[1]
              THEN Return([user[1] EXCEPT !.role = payload.value[1].role])
              ELSE Return(user[1])

\* get_current_user that answers 404 when the table has no such user
get_current_user_NotFound404(credentials, table, t) ==
    LET payload == verify_token(credentials, t) IN
    IF payload.raised THEN payload
    ELSE IF ~TruthyDict(payload.value)
    THEN Raise(HTTPException(HTTP_401_UNAUTHORIZED, "Invalid or expired token",
                             NoDetailRoles, WWWAuthenticateBearer))
    ELSE LET user_id == Get(payload.value[1], "user_id") IN
         IF ~TruthyInt(user_id)
         THEN Raise(HTTPException(HTTP_401_UNAUTHORIZED, "Invalid token payload",
                                  NoDetailRoles, WWWAuthenticateBearer))
         ELSE LET user == FindById(table, user_id[1]) IN
              IF user = None
              THEN Raise(HTTPException(404, "User not found", NoDetailRoles, NoHeaders))
              ELSE Return(user[1])

get_current_user(credentials, table, t) ==
    LET payload == verify_token(credentials, t) IN
    IF payload.raised THEN payload
    ELSE IF ~TruthyDict(payload.value)
    THEN Raise(HTTPException(HTTP_401_UNAUTHORIZED, "Invalid or expired token",
                             NoDetailRoles, WWWAuthenticateBearer))
    ELSE LET user_id == Get(payload.value[1], "user_id") IN
         IF ~TruthyInt(user_id)
         THEN Raise(HTTPException(HTTP_401_UNAUTHORIZED, "Invalid token payload",
                                  NoDetailRoles, WWWAuthenticateBearer))
         ELSE LET user == FindById(table, user_id[1]) IN
              IF user = None
              THEN Raise(HTTPException(HTTP_401_UNAUTHORIZED, "User not found",
                                       NoDetailRoles, WWWAuthenticateBearer))
              ELSE Return(user[1])

\* get_current_admin that turns away the USER role instead of every role but ADMIN
get_current_admin_RejectsUserOnly(current_user) ==
    IF current_user.role = USER
    THEN Raise(HTTPException(HTTP_403_FORBIDDEN, "Admin access required",
                             NoDetailRoles, NoHeaders))
    ELSE Return(current_user)

get_current_admin(current_user) ==
    IF current_user.role # ADMIN
    THEN Raise(HTTPException(HTTP_403_FORBIDDEN, "Admin access required",
                             NoDetailRoles, NoHeaders))
    ELSE Return(current_user)

\* role_checker with a hierarchy: ADMIN passes whatever the allowed roles
role_checker_AdminPasses(allowed_roles, current_user) ==
    IF current_user.role \notin allowed_roles /\ current_user.role # ADMIN
    THEN Raise(HTTPException(HTTP_403_FORBIDDEN, "Access denied. Required roles: ",
                             allowed_roles, NoHeaders))
    ELSE Return(current_user)

\* the closure require_role(*allowed_roles) returns
role_checker(allowed_roles, current_user) ==
    IF current_user.role \notin allowed_roles
    THEN Raise(HTTPException(HTTP_403_FORBIDDEN, "Access denied. Required roles: ",
                             allowed_roles, NoHeaders))
    ELSE Return(current_user)

\* get_optional_user that tests startswith("Bearer"), without the space
get_optional_user_NoSpace(authorization, table, t) ==
    IF ~authorization.present \/ authorization.value = <<>> THEN Return(None)
    ELSE IF authorization.value[1] # BearerWord THEN Return(None)
    ELSE LET parts == Split(authorization.value) IN
         IF Len(parts) < 2 THEN Raise(LibraryError("IndexError"))
         ELSE LET payload == verify_token(parts[2], t) IN
              IF payload.raised THEN payload
              ELSE IF ~TruthyDict(payload.value) THEN Return(None)
              ELSE LET user_id == Get(payload.value[1], "user_id") IN
                   IF ~TruthyInt(user_id) THEN Return(None)
                   ELSE Return(FindById(table, user_id[1]))

\* Some(user) or None; authorization.split(" ")[1] raises IndexError on one part
get_optional_user(authorization, table, t) ==
    IF ~authorization.present \/ authorization.value = <<>> THEN Return(None)
    ELSE IF ~StartsWithBearerSp(authorization.value) THEN Return(None)
    ELSE LET parts == Split(authorization.value) IN
         IF Len(parts) < 2 THEN Raise(LibraryError("IndexError"))
         ELSE LET payload == verify_token(parts[2], t) IN
              IF payload.raised THEN payload
              ELSE IF ~TruthyDict(payload.value) THEN Return(None)
              ELSE LET user_id == Get(payload.value[1], "user_id") IN
                   IF ~TruthyInt(user_id) THEN Return(None)
                   ELSE Return(FindById(table, user_id[1]))

\* Depends(get_current_user) on a request: security first, then the function
required_user(authorization, refusal, table, t) ==
    LET c == HTTPBearer(authorization, refusal) IN
    IF c.raised THEN c ELSE get_current_user(c.value, table, t)

\* Depends(get_current_admin) on a request
required_admin(authorization, refusal, table, t) ==
    LET u == required_user(authorization, refusal, table, t) IN
    IF u.raised THEN u ELSE get_current_admin(u.value)

\* Depends(require_role(*allowed_roles)) on a request
required_role(allowed_roles, authorization, refusal, table, t) ==
    LET u == required_user(authorization, refusal, table, t) IN
    IF u.raised THEN u ELSE role_checker(allowed_roles, u.value)

(***************************************************************************)
(* Requests: what a client can send                                        *)
(***************************************************************************)
\* a key that is not the server's, and a lifetime no run of the model outlives
AttackerKey == "attacker-key"
FarFuture == UnixTime(StartTime + DefaultLifetime)

\* a JWT a client makes up without the secret
ForgedToken ==
    LET payload == [user_id |-> 1, email |-> "a@b.com", role |-> ADMIN, exp |-> FarFuture]
    IN  <<JwtPiece(JWT_ALGORITHM, payload, Sign(AttackerKey, JWT_ALGORITHM, payload))>>

\* an issued token with its payload edited and its signature kept
Tampered(token) ==
    LET j == token[1] IN
    {<<JwtPiece(j.alg, [j.payload EXCEPT !.exp = FarFuture + 1], j.sig)>>}
    \cup (IF "role" \in DOMAIN j.payload
          THEN {<<JwtPiece(j.alg, [j.payload EXCEPT !.role = ADMIN], j.sig)>>}
          ELSE {})

GarbageToken == <<Text("invalid.token.here")>>

\* the tokens a client holding h (None or one token) can send
Held(h) == IF h = None THEN {} ELSE {h[1]}

\* credential strings that are not tokens the server issued
BadCredentials(h) ==
    {ForgedToken, GarbageToken} \cup UNION {Tampered(k) : k \in Held(h)}

\* Authorization headers: the well-formed one for every credential string, and the
\* malformed shapes around the tokens clients hold
Headers(h) ==
    {NoAuthorization, Authorization(<<>>), Authorization(<<BearerWord>>),
     Authorization(<<BearerWord, SP>>)}
    \cup {Authorization(<<BearerWord, SP>> \o c) : c \in Held(h) \cup BadCredentials(h)}
    \cup {Authorization(<<bearerWord, SP>> \o c) : c \in Held(h)}
    \cup {Authorization(<<BasicWord, SP>> \o c) : c \in Held(h)}
    \cup {Authorization(<<BearerWord, SP>> \o c \o <<SP, Text("x")>>) : c \in Held(h)}
    \cup {Authorization(<<BearerWord, SP, SP>> \o c) : c \in Held(h)}
    \cup {Authorization(<<BearerWord>> \o c) : c \in Held(h)}

\* the dependency each route declares
Routes ==
    {"get_profile", "update_profile", "delete_account", "admin_route", "role_route",
     "guest_route"}
Guard(route) ==
    CASE route \in {"get_profile", "update_profile", "delete_account"} -> "required"
      [] route = "admin_route" -> "admin"
      [] route = "role_route" -> "role"
      [] OTHER -> "optional"

\* the role sets a role_route is declared with
AllowedRoleSets == {{ADMIN}, {USER}, {USER, ADMIN}}

EmptyTable == <<>>

IdleRequest ==
    [pc |-> "Idle", route |-> "none", allowed |-> {}, authorization |-> NoAuthorization,
     credentials |-> <<>>, user |-> None, response |-> None, by |-> "none",
     handled |-> FALSE]

Terminal == {"Guest", "Authorized", "Unauthenticated", "Forbidden", "Error"}

\* the terminal state a raised exception puts the request in
TerminalOf(exc) ==
    IF exc.class = "HTTPException" /\ exc.status_code = HTTP_401_UNAUTHORIZED
    THEN "Unauthenticated"
    ELSE IF exc.class = "HTTPException" /\ exc.status_code = HTTP_403_FORBIDDEN
    THEN "Forbidden"
    ELSE "Error"

NoCall == [op |-> "none", token |-> <<>>, data |-> <<>>, delta |-> None, at |-> 0,
           result |-> Return(None), after |-> <<>>]

(***************************************************************************)
(* Initial states: a database that is empty or seeded with one account     *)
(***************************************************************************)
SeedAccounts ==
    {EmptyTable}
    \cup {<<User(1, "root@b.com", hash_password(RootPassword, "salt0"), r)>> : r \in {ADMIN, GUEST}}

Init ==
    /\ users \in SeedAccounts
    /\ now = StartTime
    /\ settings = [JWT_SECRET |-> DefaultSecret]
    /\ held = None
    /\ req = IdleRequest
    /\ call = NoCall
    /\ inflight = {}
    /\ providers = <<>>

(***************************************************************************)
(* Clients and the clock                                                   *)
(***************************************************************************)
\* The dependencies and the route bodies are coroutines that never suspend: from
\* get_current_user to the response a request runs with no other request and no
\* clock reading in between.  Time passes and other requests are served while the
\* request is Waiting (its database session is opened in the thread pool); what
\* clients do with their tokens does not touch a request already sent.
Quiet == req.pc = "Idle"
Waiting == req.pc \in {"NoCredential", "Credential"}

Tick ==
    /\ Quiet \/ Waiting
    /\ now < StartTime + MaxTime
    /\ now' = now + 1
    /\ UNCHANGED <<users, held, req, call, settings, inflight, providers>>

\* a client keeps the token it is handed, or goes on with the one it has
Keep(h, token) == {h, Some(token)}

Forget ==
    /\ Quiet
    /\ held # None
    /\ held' = None
    /\ UNCHANGED <<users, now, req, call, settings, inflight, providers>>

Arrive ==
    /\ req.pc = "Idle"
    /\ \E route \in Routes, authorization \in Headers(held), allowed \in AllowedRoleSets :
          /\ Guard(route) # "role" => allowed = {ADMIN}
          /\ req' = [IdleRequest EXCEPT !.pc = "NoCredential", !.route = route,
                                        !.allowed = IF Guard(route) = "role" THEN allowed ELSE {},
                                        !.authorization = authorization]
    /\ UNCHANGED <<users, now, held, call, settings, inflight, providers>>

\* the response is sent and the request is over
Respond ==
    /\ req.pc \in Terminal
    /\ req.route \in {"update_profile", "delete_account"} /\ req.pc = "Authorized"
          => req.handled
    /\ req' = IdleRequest
    /\ UNCHANGED <<users, now, held, call, settings, inflight, providers>>

(***************************************************************************)
(* The dependency chain of one request                                     *)
(***************************************************************************)
\* the request ends with the exception a dependency raised
Refused(dependency, exc) ==
    [req EXCEPT !.pc = TerminalOf(exc), !.response = Some(exc), !.by = dependency]

\* Depends(security)
HTTPBearerStep ==
    /\ req.pc = "NoCredential"
    /\ Guard(req.route) # "optional"
    /\ \E refusal \in BearerRefusals :
          LET r == HTTPBearer(req.authorization, refusal) IN
          req' = IF r.raised THEN Refused("security", r.exc)
                 ELSE [req EXCEPT !.pc = "Credential", !.credentials = r.value,
                                  !.by = "security"]
    /\ UNCHANGED <<users, now, held, call, settings, inflight, providers>>

\* Depends(get_current_user); a route that asks for no role runs with the user
GetCurrentUserStep ==
    /\ req.pc = "Credential"
    /\ LET r == get_current_user(req.credentials, users, now) IN
       req' = IF r.raised
              THEN Refused("get_current_user", r.exc)
              ELSE [req EXCEPT !.pc = IF Guard(req.route) = "required"
                                      THEN "Authorized" ELSE "Identity",
                               !.user = Some(r.value), !.by = "get_current_user"]
    /\ UNCHANGED <<users, now, held, call, settings, inflight, providers>>

\* Depends(get_current_admin)
GetCurrentAdminStep ==
    /\ req.pc = "Identity"
    /\ Guard(req.route) = "admin"
    /\ LET r == get_current_admin(req.user[1]) IN
       req' = IF r.raised THEN Refused("get_current_admin", r.exc)
              ELSE [req EXCEPT !.pc = "Authorized", !.by = "get_current_admin"]
    /\ UNCHANGED <<users, now, held, call, settings, inflight, providers>>

\* Depends(require_role(*allowed))
RoleCheckerStep ==
    /\ req.pc = "Identity"
    /\ Guard(req.route) = "role"
    /\ LET r == role_checker(req.allowed, req.user[1]) IN
       req' = IF r.raised THEN Refused("role_checker", r.exc)
              ELSE [req EXCEPT !.pc = "Authorized", !.by = "role_checker"]
    /\ UNCHANGED <<users, now, held, call, settings, inflight, providers>>

\* Depends(get_optional_user)
GetOptionalUserStep ==
    /\ req.pc = "NoCredential"
    /\ Guard(req.route) = "optional"
    /\ LET r == get_optional_user(req.authorization, users, now) IN
       req' = IF r.raised
              THEN Refused("get_optional_user", r.exc)
              ELSE [req EXCEPT !.pc = IF r.value = None THEN "Guest" ELSE "Authorized",
                               !.user = r.value, !.by = "get_optional_user"]
    /\ UNCHANGED <<users, now, held, call, settings, inflight, providers>>

(***************************************************************************)
(* Account routes: routes/auth.py                                          *)
(***************************************************************************)
\* POST /register with a new email: the account is stored, a token handed out
register ==
    /\ Quiet \/ Waiting
    /\ \E email \in Emails, password \in Passwords, salt \in Salts :
          LET existing_user == FindByEmail(users, email)
              id == NextRowId(users)
              new_user == User(id, email, hash_password(password, salt), USER)
              token == create_user_token(id, new_user.email, new_user.role, now)
          IN  /\ existing_user = None
              /\ id <= MaxId
              /\ users' = [i \in (DOMAIN users) \cup {id} |->
                             IF i = id THEN new_user ELSE users[i]]
              /\ held' \in (IF Quiet THEN Keep(held, token) ELSE {held})
    /\ UNCHANGED <<now, req, call, settings, inflight, providers>>

\* the emails and passwords clients log in with: those of accounts, and an email no
\* account has
LoginEmails == Emails \cup {"root@b.com", "nobody@b.com"}
LoginPasswords == Passwords \cup {RootPassword}

\* the body of login that names the missing account in its answer
login_response_NamesUnknownEmail(table, email, password, t) ==
    LET user == FindByEmail(table, email) IN
    IF user = None
    THEN Raise(HTTPException(HTTP_401_UNAUTHORIZED, "User not found",
                             NoDetailRoles, NoHeaders))
    ELSE IF ~verify_password(password, user[1].password_hash)
    THEN Raise(HTTPException(HTTP_401_UNAUTHORIZED, "Incorrect email or password",
                             NoDetailRoles, NoHeaders))
    ELSE Return(create_user_token(user[1].id, user[1].email, user[1].role, t))

\* the body of login: the token of the stored account, or the HTTPException raised
login_response(table, email, password, t) ==
    LET user == FindByEmail(table, email) IN
    IF user = None
    THEN Raise(HTTPException(HTTP_401_UNAUTHORIZED, "Incorrect email or password",
                             NoDetailRoles, NoHeaders))
    ELSE IF ~verify_password(password, user[1].password_hash)
    THEN Raise(HTTPException(HTTP_401_UNAUTHORIZED, "Incorrect email or password",
                             NoDetailRoles, NoHeaders))
    ELSE Return(create_user_token(user[1].id, user[1].email, user[1].role, t))

\* POST /login: a new token for the stored account when the password is right; a
\* refused login changes nothing
login ==
    /\ Quiet
    /\ \E email \in LoginEmails, password \in LoginPasswords :
          LET r == login_response(users, email, password, now) IN
          held' = IF r.raised THEN held ELSE Some(r.value)
    /\ UNCHANGED <<users, now, req, call, settings, inflight, providers>>

\* update_profile that also stores a role the body names
update_profile_TakesRole ==
    /\ req.pc = "Authorized"
    /\ req.route = "update_profile"
    /\ ~req.handled
    /\ \E email \in Emails, role \in UserRole :
          LET current_user == req.user[1]
              existing == {i \in DOMAIN users :
                             users[i].email = email /\ users[i].id # current_user.id}
          IN  IF existing # {}
              THEN /\ req' = [req EXCEPT !.handled = TRUE,
                                         !.response = Some(HTTPException(HTTP_400_BAD_REQUEST,
                                                             "Email already in use",
                                                             NoDetailRoles, NoHeaders))]
                   /\ UNCHANGED users
              ELSE /\ users' = [users EXCEPT ![current_user.id].email = email,
                                             ![current_user.id].role = role]
                   /\ req' = [req EXCEPT !.handled = TRUE]
    /\ UNCHANGED <<now, held, call, settings, inflight, providers>>

\* PUT /profile with a new email, once get_current_user has let the request in: the
\* email is stored unless another account has it
update_profile ==
    /\ req.pc = "Authorized"
    /\ req.route = "update_profile"
    /\ ~req.handled
    /\ \E email \in Emails :
          LET current_user == req.user[1]
              existing == {i \in DOMAIN users :
                             users[i].email = email /\ users[i].id # current_user.id}
          IN  IF existing # {}
              THEN /\ req' = [req EXCEPT !.handled = TRUE,
                                         !.response = Some(HTTPException(HTTP_400_BAD_REQUEST,
                                                             "Email already in use",
                                                             NoDetailRoles, NoHeaders))]
                   /\ UNCHANGED users
              ELSE /\ users' = [users EXCEPT ![current_user.id].email = email]
                   /\ req' = [req EXCEPT !.handled = TRUE]
    /\ UNCHANGED <<now, held, call, settings, inflight, providers>>

\* DELETE /account, once get_current_user has let the request in
delete_account ==
    /\ req.pc = "Authorized"
    /\ req.route = "delete_account"
    /\ ~req.handled
    /\ users' = [i \in (DOMAIN users) \ {req.user[1].id} |-> users[i]]
    /\ req' = [req EXCEPT !.handled = TRUE]
    /\ UNCHANGED <<now, held, call, settings, inflight, providers>>

(***************************************************************************)
(* Direct calls of the token service, as in the demo of jwt_handler.py     *)
(***************************************************************************)
\* the claim sets callers pass: with a user_id (0 included), without one, and with a
\* user_id beside the registered claim aud
ClaimSets ==
    {[user_id |-> 0], [user_id |-> MaxId], [email |-> "a@b.com"],
     [user_id |-> MaxId, aud |-> "web"]}

\* the lifetimes callers pass: none, or a timedelta of up to a second either way
Deltas == {None} \cup {Some(d) : d \in (0 - TicksPerSec)..TicksPerSec}

\* a caller issues a token, valid for a day, for one tick, or expired a second ago as
\* in the demo, and hands it to a client
IssueToken ==
    /\ Quiet
    /\ \E data \in ClaimSets, expires_delta \in {None, Some(1), Some(0 - TicksPerSec)} :
          held' = Some(create_access_token(data, expires_delta, now))
    /\ UNCHANGED <<users, now, req, call, settings, inflight, providers>>

Next ==
    \/ Tick
    \/ Forget
    \/ Arrive
    \/ Respond
    \/ HTTPBearerStep
    \/ GetCurrentUserStep
    \/ GetCurrentAdminStep
    \/ RoleCheckerStep
    \/ GetOptionalUserStep
    \/ register
    \/ login
    \/ update_profile
    \/ delete_account
    \/ IssueToken

Spec == Init /\ [][Next]_vars

(***************************************************************************)
(* The token service on its own: callers of create_access_token,           *)
(* verify_token and extract_user_id, and the clock                         *)
(***************************************************************************)
\* an issued token with one character of its signature segment replaced: the last
\* character by one that differs in the bits belonging to no byte, or a character
\* that changes the bytes of the signature
SignatureEdits(token) ==
    {<<[token[1] EXCEPT !.slack = b]>> : b \in 1..(UnusedBitValues - 1)}
    \cup {<<[token[1] EXCEPT !.sig.key = AttackerKey]>>}

\* the strings callers pass for a token
TokenStrings(h) ==
    Held(h) \cup BadCredentials(h) \cup {<<>>} \cup UNION {SignatureEdits(k) : k \in Held(h)}

CallCreateAccessToken ==
    /\ \E data \in ClaimSets, expires_delta \in Deltas :
          LET token == create_access_token(data, expires_delta, now) IN
          /\ held' = Some(token)
          /\ call' = [op |-> "create_access_token", token |-> token, data |-> data,
                      delta |-> expires_delta, at |-> now, result |-> Return(Some(token)),
                      after |-> create_access_token_objects(data, expires_delta, now).data]
    /\ UNCHANGED <<users, now, req, settings, inflight, providers>>

CallVerifyToken ==
    /\ \E token \in TokenStrings(held) :
          call' = [op |-> "verify_token", token |-> token, data |-> <<>>,
                   delta |-> None, at |-> now, result |-> verify_token(token, now),
                   after |-> <<>>]
    /\ UNCHANGED <<users, now, held, req, settings, inflight, providers>>

CallExtractUserId ==
    /\ \E token \in TokenStrings(held) :
          call' = [op |-> "extract_user_id", token |-> token, data |-> <<>>,
                   delta |-> None, at |-> now, result |-> extract_user_id(token, now),
                   after |-> <<>>]
    /\ UNCHANGED <<users, now, held, req, settings, inflight, providers>>

ClockTick ==
    /\ now < StartTime + MaxTime
    /\ now' = now + 1
    /\ UNCHANGED <<users, held, req, call, settings, inflight, providers>>

\* the process is started again with another JWT_SECRET in its environment: no call
\* is in progress, and clients keep the tokens they hold
Restart ==
    /\ settings.JWT_SECRET = DefaultSecret
    /\ settings' = [settings EXCEPT !.JWT_SECRET = RotatedSecret]
    /\ call' = NoCall
    /\ UNCHANGED <<users, now, held, req, inflight, providers>>

TokenNext ==
    \/ CallCreateAccessToken
    \/ CallVerifyToken
    \/ CallExtractUserId
    \/ ClockTick
    \/ Restart

TokenSpec == Init /\ [][TokenNext]_vars

(***************************************************************************)
(* Properties of the identity resolver and the access guard                *)
(***************************************************************************)
\* the payload verify_token returns for a string at the current time, if it returns one
Verified(token) ==
    LET v == verify_token(token, now) IN
    IF ~v.raised /\ v.value # None THEN v.value ELSE None

\* the stored user a verified payload names, if there is one
Named(payload) ==
    IF payload # None /\ "user_id" \in DOMAIN payload[1] /\ payload[1].user_id \in DOMAIN users
    THEN Some(users[payload[1].user_id])
    ELSE None

\* get_current_user has just answered the request
ByGetCurrentUser == req.by = "get_current_user" /\ req.pc # "Credential" /\ ~req.handled

\* C1: get_current_user returns the stored user whose id is the token's user_id
\* claim, and refuses with 401 in every other case: the token does not verify, the
\* payload has no user_id, or no user has that id.
C1_GetCurrentUser ==
    ByGetCurrentUser =>
        LET named == Named(Verified(req.credentials)) IN
        IF named # None
        THEN /\ req.user = named
             /\ req.pc \in {"Authorized", "Identity"}
             /\ req.response = None
        ELSE /\ req.user = None
             /\ req.pc = "Unauthenticated"
             /\ req.response # None
             /\ req.response[1].class = "HTTPException"
             /\ req.response[1].status_code = HTTP_401_UNAUTHORIZED

\* a token that verifies and names an account that is gone is refused with 401
C1_Witness ==
    /\ ByGetCurrentUser
    /\ Verified(req.credentials) # None
    /\ "user_id" \in DOMAIN Verified(req.credentials)[1]
    /\ Verified(req.credentials)[1].user_id # 0
    /\ req.pc = "Unauthenticated"

\* the token get_optional_user reads from a header that starts with "Bearer "
OptionalToken(authorization) == Split(authorization.value)[2]

C3_RequireRole ==
    req.by = "role_checker" =>
        /\ req.user # None
        /\ req.pc \in {"Authorized", "Forbidden"}
        /\ req.pc = "Authorized" <=> req.user[1].role \in req.allowed
        /\ req.pc = "Authorized" => req.response = None
        /\ req.pc = "Forbidden" =>
              /\ req.response # None
              /\ req.response[1].status_code = HTTP_403_FORBIDDEN

\* an ADMIN identity is turned away by require_role(USER)
C3_Witness ==
    /\ req.by = "role_checker"
    /\ req.user # None
    /\ req.user[1].role = ADMIN
    /\ req.allowed = {USER}
    /\ req.pc = "Forbidden"

\* the evaluation of the request is over and its route has not changed the table
Answered == req.pc \in Terminal /\ ~req.handled

\* C4: every evaluation ends in one of Guest, Authorized, Unauthenticated and
\* Forbidden; Forbidden is reached only once an identity has been resolved (a
\* missing, invalid, expired or unknown-user credential before require_role or
\* get_current_admin ends Unauthenticated), and Guest only on the optional path.
C4_TerminalStates ==
    /\ req.pc \in Terminal =>
          req.pc \in {"Guest", "Authorized", "Unauthenticated", "Forbidden"}
    /\ req.pc = "Forbidden" => req.user # None
    /\ req.pc = "Guest" => Guard(req.route) = "optional"
    /\ (Answered /\ Guard(req.route) \in {"admin", "role"} /\ req.user = None) =>
          req.pc = "Unauthenticated"

\* the terminal state and the identity a dependency's result stands for
SameOutcome(r) ==
    /\ req.pc = (IF r.raised THEN TerminalOf(r.exc) ELSE "Authorized")
    /\ ~r.raised => req.user = Some(r.value)

\* C5: get_current_admin and require_role(ADMIN) answer every request alike: the
\* same terminal state and, when Authorized, the same identity.
C5_AdminIsRequireRoleAdmin ==
    /\ (Answered /\ Guard(req.route) = "admin") =>
          \E refusal \in BearerRefusals :
             SameOutcome(required_role({ADMIN}, req.authorization, refusal, users, now))
    /\ (Answered /\ Guard(req.route) = "role" /\ req.allowed = {ADMIN}) =>
          \E refusal \in BearerRefusals :
             SameOutcome(required_admin(req.authorization, refusal, users, now))

\* get_current_admin turns a USER identity away
C5_Witness ==
    /\ req.by = "get_current_admin"
    /\ req.pc = "Forbidden"
    /\ req.user # None
    /\ req.user[1].role = USER

\* C6: the optional and the required entry point resolve the same identity from
\* every Authorization header: one returns user u exactly when the other does, and
\* get_optional_user returns None exactly when get_current_user refuses with 401.
C6_OptionalAgreesWithRequired ==
    /\ req.by = "get_optional_user" =>
          \E refusal \in BearerRefusals :
             LET r == required_user(req.authorization, refusal, users, now) IN
             IF req.user # None
             THEN ~r.raised /\ req.user = Some(r.value)
             ELSE r.raised /\ TerminalOf(r.exc) = "Unauthenticated"
    /\ (Answered /\ Guard(req.route) = "required") =>
          LET o == get_optional_user(req.authorization, users, now) IN
          /\ ~o.raised
          /\ o.value = (IF req.pc = "Authorized" THEN req.user ELSE None)

\* C7: every cause of a refusal by get_current_user gives the same response: the
\* status, the detail and the headers of two refused requests are equal.
C7_RefusalsIndistinguishable ==
    (ByGetCurrentUser /\ req.response # None) =>
        \A c \in Held(held) \cup BadCredentials(held) :
           LET r == get_current_user(c, users, now) IN
           r.raised => r.exc = req.response[1]

(***************************************************************************)
(* Properties of the token service                                         *)
(***************************************************************************)
Malformed(token) == Len(token) # 1 \/ token[1].kind # "jwt"

BadSignature(token) ==
    /\ ~Malformed(token)
    /\ token[1].sig # Sign(JWT_SECRET, token[1].alg, token[1].payload)

\* the whole second of exp lies before the whole second of t
Expired(token, t) ==
    /\ ~Malformed(token)
    /\ "exp" \in DOMAIN token[1].payload
    /\ token[1].payload.exp < UnixTime(t)

RoundTrips ==
    LET v == verify_token(call.token, call.at) IN
    /\ ~v.raised
    /\ v.value # None
    /\ "user_id" \in DOMAIN v.value[1]
    /\ v.value[1].user_id = call.data.user_id
    /\ extract_user_id(call.token, call.at) = Return(Some(call.data.user_id))

\* extract_user_id answered None exactly when verify_token answers None or the
\* payload has no user_id
ExtractNoneIff ==
    call.op = "extract_user_id" =>
        LET v == verify_token(call.token, call.at) IN
        /\ ~call.result.raised
        /\ ~v.raised
        /\ call.result.value = None
              <=> (v.value = None \/ "user_id" \notin DOMAIN v.value[1])

\* create_access_token was just called with a user_id and a positive lifetime
IssuedWithPositiveLifetime ==
    /\ call.op = "create_access_token"
    /\ "user_id" \in DOMAIN call.data
    /\ call.delta # None
    /\ call.delta[1] > 0

C10_NegativeLifetimeRejected ==
    (call.op = "create_access_token" /\ call.delta # None /\ call.delta[1] < 0) =>
        verify_token(call.token, now) = Return(None)

\* the exp claim of the token the last call issued, in whole seconds
IssuedExp == call.token[1].payload.exp

\* C11: create_access_token sets exp to the issuance time plus the supplied lifetime
\* for every lifetime the caller supplies, positive, zero or negative, and uses the
\* default lifetime only when none is supplied; a lifetime of zero gives an exp equal
\* to the issuance time.
C11_ExpIsIssuancePlusTtl ==
    call.op = "create_access_token" =>
        IssuedExp = UnixTime(call.at + (IF call.delta = None THEN DefaultLifetime
                                        ELSE call.delta[1]))

\* a token was issued with an explicit lifetime of zero and carries the default one
C11_ZeroTtlGetsDefault ==
    /\ call.op = "create_access_token"
    /\ call.delta = Some(0)
    /\ IssuedExp = UnixTime(call.at + DefaultLifetime)

\* the instant a token's exp claim names, in ticks
ExpInstant(token) == token[1].payload.exp * TicksPerSec

\* a token issued with the claims of its caller alone, as register and login issue it
PlainClaims(token) == "aud" \notin DOMAIN token[1].payload

\* C12: the validity of an issued token depends on the token and the time alone: the
\* token is accepted at every time before its exp and rejected at every time after
\* it, once rejected it is never accepted again, and no register, login,
\* update_profile or delete_account request changes what verify_token answers.
C12_ValidityStatelessMonotone ==
    /\ [](held # None /\ PlainClaims(held[1]) =>
             /\ now < ExpInstant(held[1]) => Verified(held[1]) # None
             /\ now > ExpInstant(held[1]) => Verified(held[1]) = None)
    /\ [][(held # None /\ held' = held) =>
             /\ Verified(held[1]) = None => Verified(held[1])' = None
             /\ now' = now => Verified(held[1])' = Verified(held[1])]_vars

\* a token is accepted although the instant of its exp has passed
C12_AcceptedAfterExp ==
    /\ held # None
    /\ PlainClaims(held[1])
    /\ now > ExpInstant(held[1])
    /\ Verified(held[1]) # None

\* C13: verify_token accepts a token only if its signature was made over its exact
\* header and payload with the configured secret: a valid token with any character
\* of its signature segment changed is invalid, and a token issued under a previous
\* secret is invalid once the secret has changed.
C13_SignatureBindsToken ==
    /\ \A token \in TokenStrings(held) :
          Verified(token) # None =>
             token[1].sig = Sign(JWT_SECRET, token[1].alg, token[1].payload)
    /\ \A token \in Held(held) :
          /\ Verified(token) # None =>
                \A edited \in SignatureEdits(token) : Verified(edited) = None
          /\ token[1].sig.key # JWT_SECRET => Verified(token) = None

\* a valid token still verifies after the last character of its signature segment
\* has been replaced
C13_EditedSignatureAccepted ==
    /\ call.op = "verify_token"
    /\ held # None
    /\ call.token \in SignatureEdits(held[1])
    /\ call.token # held[1]
    /\ call.result.value # None

\* C14: create_access_token never changes the caller's claims mapping: after the call
\* it has the keys and values it had before, and no exp key the caller did not put
\* there.
C14_CallerMappingUnchanged ==
    call.op = "create_access_token" =>
        /\ call.after = call.data
        /\ "exp" \in DOMAIN call.after => "exp" \in DOMAIN call.data

\* a token with an exp claim was issued from a mapping that has none
C14_Witness ==
    /\ call.op = "create_access_token"
    /\ "exp" \notin DOMAIN call.data
    /\ "exp" \in DOMAIN call.token[1].payload
    /\ DOMAIN call.after = DOMAIN call.data

\* C15: the payload of every token register and login hand out, which is every token
\* create_user_token issues, holds exactly the claims user_id, email, role and exp,
\* with the values of the stored account: no password, no password hash, no other
\* field of the user.
C15_UserTokenClaims ==
    [][((register \/ login) /\ held' # held) =>
          LET payload == held'[1][1].payload IN
          /\ DOMAIN payload = {"user_id", "email", "role", "exp"}
          /\ payload.exp = UnixTime(now + DefaultLifetime)
          /\ \E i \in DOMAIN users' :
                /\ payload.user_id = users'[i].id
                /\ payload.email = users'[i].email
                /\ payload.role = users'[i].role]_vars

\* a client holds the token of a registered account, whose stored row has a
\* password hash
C15_Witness ==
    /\ held # None
    /\ DOMAIN held[1][1].payload = {"user_id", "email", "role", "exp"}
    /\ held[1][1].payload.user_id \in DOMAIN users
    /\ users[held[1][1].payload.user_id].role = USER
    /\ "password_hash" \in DOMAIN users[held[1][1].payload.user_id]

(***************************************************************************)
(* The password manager on its own: callers of validate_password_strength, *)
(* hash_password and verify_password, as in the demo of password.py        *)
(***************************************************************************)
\* longest run of freely chosen characters at the head of a password
MaxStem == 4

\* one character of each kind: the four the rules ask for, punctuation the pattern
\* of the last rule does not list, and whitespace
Alphabet == {"A", "a", "1", "@", "-", " "}

RECURSIVE Strings(_)
\* the strings over Alphabet of length n
Strings(n) ==
    IF n = 0 THEN {<<>>}
    ELSE {<<c>> \o w : c \in Alphabet, w \in Strings(n - 1)}

Stems == UNION {Strings(n) : n \in 0..MaxStem}

Repeat(c, n) == [i \in 1..n |-> c]

\* the passwords callers pass: a stem, alone or with its last character repeated up
\* to one character short of the minimum length, or up to the minimum length
PasswordInputs ==
    Stems \cup
    {w \o Repeat(w[Len(w)], n) :
        w \in Stems \ {<<>>},
        n \in {MIN_PASSWORD_LENGTH - MaxStem - 1, MIN_PASSWORD_LENGTH - MaxStem}}

\* one call at a time: the caller has the result before it calls again
CallValidatePasswordStrength ==
    /\ call = NoCall
    /\ \E password \in PasswordInputs :
          call' = [op |-> "validate_password_strength", password |-> password,
                   result |-> validate_password_strength(password)]
    /\ UNCHANGED <<users, now, held, req, settings, inflight, providers>>

\* two passwords of 73 characters that differ in the last one
LongPasswordX == Repeat("a", BCRYPT_MAX_BYTES) \o <<"X">>
LongPasswordY == Repeat("a", BCRYPT_MAX_BYTES) \o <<"Y">>

\* the passwords callers hash and verify, and the salts bcrypt draws
HashInputs == {StrongPassword, RootPassword, LongPasswordX, LongPasswordY}
DrawnSalts == {"salt1", "salt2"}

\* hash_password(password); a caller that hashes again keeps the earlier result
CallHashPassword ==
    /\ call = NoCall \/ (call.op = "hash_password" /\ call.earlier = <<>>)
    /\ \E password \in HashInputs, salt \in DrawnSalts :
          call' = [op |-> "hash_password", password |-> password, salt |-> salt,
                   result |-> hash_password(password, salt),
                   earlier |-> IF call = NoCall THEN <<>>
                               ELSE <<[password |-> call.password, salt |-> call.salt,
                                       result |-> call.result]>>]
    /\ UNCHANGED <<users, now, held, req, settings, inflight, providers>>

\* verify_password(plain_password, hashed_password) on the hash just made
CallVerifyPassword ==
    /\ call.op = "hash_password"
    /\ \E plain_password \in HashInputs :
          call' = [op |-> "verify_password", plain_password |-> plain_password,
                   hashed_password |-> call.result, hashed_from |-> call.password,
                   result |-> verify_password(plain_password, call.result)]
    /\ UNCHANGED <<users, now, held, req, settings, inflight, providers>>

\* the caller takes the result
PasswordCallReturns ==
    /\ call # NoCall
    /\ call' = NoCall
    /\ UNCHANGED <<users, now, held, req, settings, inflight, providers>>

PasswordNext ==
    \/ CallValidatePasswordStrength
    \/ CallHashPassword
    \/ CallVerifyPassword
    \/ PasswordCallReturns

\* the password manager reads no table: the calls start from an empty one
PasswordInit == Init /\ users = EmptyTable

PasswordSpec == PasswordInit /\ [][PasswordNext]_vars

\* the rules in the order length, uppercase, lowercase, digit, special character,
\* each with the message of its failure
RuleFails(password) ==
    <<Len(password) < 8,
      \A i \in DOMAIN password : password[i] \notin UpperClass,
      \A i \in DOMAIN password : password[i] \notin LowerClass,
      \A i \in DOMAIN password : password[i] \notin DigitClass,
      \A i \in DOMAIN password : password[i] \notin SpecialClass>>

RuleMessages ==
    <<"Password must be at least 8 characters long",
      "Password must contain at least one uppercase letter",
      "Password must contain at least one lowercase letter",
      "Password must contain at least one number",
      "Password must contain at least one special character">>

\* C16: validate_password_strength answers (False, message of the first rule that
\* fails in the order length, uppercase, lowercase, digit, special character) for a
\* password that breaks a rule, and (True, "") exactly for one that passes all five.
C16_FirstFailingRule ==
    call.op = "validate_password_strength" =>
        LET fails == RuleFails(call.password)
            failing == {i \in 1..5 : fails[i]}
        IN  /\ failing # {} =>
                 \E i \in failing :
                    /\ \A j \in failing : i <= j
                    /\ call.result = <<FALSE, RuleMessages[i]>>
            /\ call.result = <<TRUE, "">> <=> failing = {}

\* a password of 8 characters with uppercase letters only breaks three rules and is
\* told about the lowercase letter
C16_Witness ==
    /\ call.op = "validate_password_strength"
    /\ Len(call.password) = 8
    /\ \A i \in DOMAIN call.password : call.password[i] = "A"
    /\ call.result = <<FALSE, "Password must contain at least one lowercase letter">>

Alphanumeric == UpperClass \cup LowerClass \cup DigitClass
Whitespace == {" "}

\* a character that is neither alphanumeric nor whitespace
IsSpecial(c) == c \notin Alphanumeric /\ c \notin Whitespace

\* C17: the special-character rule is met by any character that is neither
\* alphanumeric nor whitespace: a password of at least 8 characters with an
\* uppercase letter, a lowercase letter, a digit and one such character ('-', '_',
\* '+', ...) is accepted, and a password whose only non-alphanumeric characters are
\* whitespace is rejected.
C17_AnySpecialCharacter ==
    call.op = "validate_password_strength" =>
        LET password == call.password IN
        /\ (/\ Len(password) >= 8
            /\ re_search(UpperClass, password)
            /\ re_search(LowerClass, password)
            /\ re_search(DigitClass, password)
            /\ \E i \in DOMAIN password : IsSpecial(password[i]))
              => call.result = <<TRUE, "">>
        /\ (\A i \in DOMAIN password : ~IsSpecial(password[i])) => ~call.result[1]

\* a password of 8 characters with an uppercase letter, a lowercase letter, a digit
\* and '-' is turned away for want of a special character
C17_HyphenRejected ==
    /\ call.op = "validate_password_strength"
    /\ Len(call.password) >= 8
    /\ \E i \in DOMAIN call.password : call.password[i] = "-"
    /\ call.result = <<FALSE, "Password must contain at least one special character">>

\* C18: verify_password(p, hash_password(q)) is true exactly when p equals q: a
\* password verifies against its own hash and no other password does.
C18_VerifyIffEqual ==
    call.op = "verify_password" =>
        (call.result <=> call.plain_password = call.hashed_from)

\* a password verifies against the hash of a different password with which it
\* shares its first 72 characters
C18_LongPasswordsCollide ==
    /\ call.op = "verify_password"
    /\ call.plain_password = LongPasswordX
    /\ call.hashed_from = LongPasswordY
    /\ call.result

\* the hash made by the last call and the one made by the call before it
SamePlaintextTwice ==
    /\ call.op = "hash_password"
    /\ call.earlier # <<>>
    /\ call.earlier[1].password = call.password

\* C19 as stated: hash_password is deterministic: two calls with the same plaintext
\* return the same hash, so two users with the same password store equal hashes.
C19_HashDeterministic ==
    SamePlaintextTwice => call.result = call.earlier[1].result

\* C19, amended: hash_password is salted: two calls with the same plaintext return
\* the same hash only when bcrypt drew the same salt, and each of the two hashes
\* verifies the plaintext.
C19_HashSalted ==
    SamePlaintextTwice =>
        /\ call.result = call.earlier[1].result <=> call.salt = call.earlier[1].salt
        /\ verify_password(call.password, call.result)
        /\ verify_password(call.password, call.earlier[1].result)

\* the same password was hashed twice with different salts
C19_Witness ==
    /\ SamePlaintextTwice
    /\ call.salt # call.earlier[1].salt
    /\ call.result # call.earlier[1].result

\* C20: a refused login does not tell whether the email exists: whatever the store
\* holds, a login with a registered email and a wrong password and a login with an
\* unregistered email get responses with the same status, 401, and the same message.
C20_LoginFailuresAlike ==
    \A e1 \in LoginEmails, e2 \in LoginEmails, p1 \in LoginPasswords, p2 \in LoginPasswords :
       LET wrong == login_response(users, e1, p1, now)
           unknown == login_response(users, e2, p2, now)
       IN  (/\ FindByEmail(users, e1) # None
            /\ FindByEmail(users, e2) = None) =>
              /\ unknown.raised
              /\ unknown.exc.status_code = HTTP_401_UNAUTHORIZED
              /\ wrong.raised => wrong.exc = unknown.exc

\* the store holds an account; a login to it with a wrong password is refused, and
\* so is a login with an email no account has
C20_Witness ==
    \E e1 \in LoginEmails, p1 \in LoginPasswords :
       /\ FindByEmail(users, e1) # None
       /\ ~verify_password(p1, FindByEmail(users, e1)[1].password_hash)
       /\ login_response(users, e1, p1, now).raised
       /\ login_response(users, "nobody@b.com", p1, now).raised

(***************************************************************************)
(* Properties of the account routes                                        *)
(***************************************************************************)
\* the calls the body of login makes, in order, before it answers
login_calls(table, email, password) ==
    LET user == FindByEmail(table, email) IN
    IF user = None THEN <<"query">>
    ELSE IF ~verify_password(password, user[1].password_hash)
    THEN <<"query", "verify_password">>
    ELSE <<"query", "verify_password", "create_user_token">>

\* the slow hash comparisons among them
HashingSteps(calls) == Cardinality({i \in DOMAIN calls : calls[i] = "verify_password"})

\* C21: login does the same password-verification work for a wrong password and for
\* an email no account has: one slow hash comparison before it answers in both
\* cases, so the number of hashing steps does not depend on whether the email is
\* registered.
C21_SameHashingWork ==
    \A e1 \in LoginEmails, e2 \in LoginEmails, p \in LoginPasswords :
       (/\ FindByEmail(users, e1) # None
        /\ login_response(users, e1, p, now).raised
        /\ FindByEmail(users, e2) = None) =>
          /\ HashingSteps(login_calls(users, e2, p)) = HashingSteps(login_calls(users, e1, p))
          /\ HashingSteps(login_calls(users, e2, p)) = 1

\* a login to a stored account with a wrong password makes one hash comparison, and a
\* login with an email no account has is refused without any
C21_UnknownEmailSkipsHashing ==
    \E e1 \in LoginEmails, p \in LoginPasswords :
       /\ FindByEmail(users, e1) # None
       /\ login_response(users, e1, p, now).raised
       /\ HashingSteps(login_calls(users, e1, p)) = 1
       /\ login_response(users, "nobody@b.com", p, now).raised
       /\ HashingSteps(login_calls(users, "nobody@b.com", p)) = 0

\* a token create_user_token issued: register and login hand out no other
IsUserToken(token) ==
    /\ ~Malformed(token)
    /\ ~BadSignature(token)
    /\ DOMAIN token[1].payload = {"user_id", "email", "role", "exp"}

\* the Authorization header a client sends with a token
BearerHeader(token) == Authorization(<<BearerWord, SP>> \o token)

\* C22: once delete_account has removed a user, a token issued to that user is
\* Unauthenticated on the required paths and a guest on the optional ones at every
\* later request, whatever is registered afterwards: the token never resolves to
\* another account, such as a new user that is given the id of the deleted one.
C22_DeletedStaysUnauthenticated ==
    [][(/\ held # None
        /\ held' = held
        /\ IsUserToken(held[1])
        /\ held[1][1].payload.user_id \notin DOMAIN users) =>
          /\ get_current_user(held[1], users', now').raised
          /\ get_optional_user(BearerHeader(held[1]), users', now') = Return(None)]_vars

\* the token issued to the seeded account root@b.com lets a request in as an account
\* with another password hash, which no route could have given to root's account
C22_ResolvesToNewAccount ==
    /\ ByGetCurrentUser
    /\ req.pc = "Authorized"
    /\ IsUserToken(req.credentials)
    /\ req.credentials[1].payload.email = "root@b.com"
    /\ req.user[1].id = req.credentials[1].payload.user_id
    /\ req.user[1].password_hash # hash_password(RootPassword, "salt0")
    /\ req.user[1].email # "root@b.com"

(***************************************************************************)
(* The account routes as the application serves them: the request schemas  *)
(* (schemas.py), the handlers (routes/auth.py) and the exception handlers  *)
(* (main.py), with what each answer and each log line is made of           *)
(***************************************************************************)
\* most requests to the account routes that wait for a database session at a time
MaxInflight == 2

HTTP_201_CREATED == 201
HTTP_200_OK == 200
HTTP_422_UNPROCESSABLE_ENTITY == 422
HTTP_500_INTERNAL_SERVER_ERROR == 500
MAX_PASSWORD_LENGTH == 100

\* One field of a response body or of a log line: its name, the value it carries
\* and where the code takes that value from.
Item(field, src, value) == [field |-> field, src |-> src, value |-> value]

Answer(status_code, body) == [status_code |-> status_code, body |-> body]

\* the validator password_strength of UserRegister: str.isupper, str.islower and
\* str.isdigit over the characters; no rule about special characters
password_strength(v) ==
    IF ~re_search(UpperClass, v)
    THEN Raise("Password must contain at least one uppercase letter")
    ELSE IF ~re_search(LowerClass, v)
    THEN Raise("Password must contain at least one lowercase letter")
    ELSE IF ~re_search(DigitClass, v)
    THEN Raise("Password must contain at least one number")
    ELSE Return(v)

\* validation of the password field of a UserRegister body: the length limits of
\* Field, then the validator.  None, or the entry of the validation error.
UserRegister_password(v) ==
    IF Len(v) < MIN_PASSWORD_LENGTH
    THEN Some([type |-> "string_too_short",
               msg |-> "String should have at least 8 characters"])
    ELSE IF Len(v) > MAX_PASSWORD_LENGTH
    THEN Some([type |-> "string_too_long",
               msg |-> "String should have at most 100 characters"])
    ELSE LET r == password_strength(v) IN
         IF r.raised THEN Some([type |-> "value_error", msg |-> r.exc]) ELSE None

\* FastAPI's answer to a body that fails validation: 422 with the entries of the
\* validation error, each of which repeats the input it refused
request_validation_error(error, input) ==
    Answer(HTTP_422_UNPROCESSABLE_ENTITY,
           <<Item("detail.type", "message", error.type),
             Item("detail.loc", "message", "body.password"),
             Item("detail.msg", "message", error.msg),
             Item("detail.input", "password", input)>>)

\* FastAPI's answer to an HTTPException: its status and {"detail": detail}
http_exception_answer(exc) ==
    Answer(exc.status_code, <<Item("detail", "message", exc.detail)>>)

\* UserResponse.from_orm(user): id, email, role (name and created_at are not part
\* of the model's user); password_hash is no field of UserResponse
UserResponse(user) ==
    <<Item("user.id", "id", user.id), Item("user.email", "email", user.email),
      Item("user.role", "role", user.role)>>

\* TokenResponse(access_token, token_type, user)
TokenResponse(access_token, user) ==
    <<Item("access_token", "token", access_token),
      Item("token_type", "message", "bearer")>> \o UserResponse(user)

\* what engine echo (echo = settings.DEBUG) logs of the INSERT of a user: the
\* statement's parameters
insert_log(user) ==
    IF settings.DEBUG
    THEN <<Item("sql.parameters", "email", user.email),
           Item("sql.parameters", "password_hash", user.password_hash),
           Item("sql.parameters", "role", user.role)>>
    ELSE <<>>

\* register without the look for an account that has the email already
register_request_NoEmailCheck(table, email, password, salt, t) ==
    LET error == UserRegister_password(password)
        id == NextRowId(table)
        new_user == User(id, email, hash_password(password, salt), USER)
        token == create_user_token(id, new_user.email, new_user.role, t)
    IN  IF error # None
        THEN [response |-> request_validation_error(error[1], password),
              table |-> table, logged |-> <<>>]
        ELSE [response |-> Answer(HTTP_201_CREATED, TokenResponse(token, new_user)),
              table |-> [i \in (DOMAIN table) \cup {id} |->
                            IF i = id THEN new_user ELSE table[i]],
              logged |-> insert_log(new_user)]

\* POST /register: the body is validated against UserRegister, then the handler
\* runs.  The answer, the table afterwards and the lines logged.
register_request(table, email, password, salt, t) ==
    LET error == UserRegister_password(password)
        existing_user == FindByEmail(table, email)
        id == NextRowId(table)
        new_user == User(id, email, hash_password(password, salt), USER)
        token == create_user_token(id, new_user.email, new_user.role, t)
    IN  IF error # None
        THEN [response |-> request_validation_error(error[1], password),
              table |-> table, logged |-> <<>>]
        ELSE IF existing_user # None
        THEN [response |-> http_exception_answer(
                              HTTPException(HTTP_400_BAD_REQUEST, "Email already registered",
                                            NoDetailRoles, NoHeaders)),
              table |-> table, logged |-> <<>>]
        ELSE [response |-> Answer(HTTP_201_CREATED, TokenResponse(token, new_user)),
              table |-> [i \in (DOMAIN table) \cup {id} |->
                            IF i = id THEN new_user ELSE table[i]],
              logged |-> insert_log(new_user)]

\* POST /login: UserLogin puts no limit on the password
login_request(table, email, password, t) ==
    LET r == login_response(table, email, password, t) IN
    IF r.raised
    THEN [response |-> http_exception_answer(r.exc), table |-> table, logged |-> <<>>]
    ELSE [response |-> Answer(HTTP_200_OK,
                              TokenResponse(r.value, FindByEmail(table, email)[1])),
          table |-> table, logged |-> <<>>]

\* the exceptions a handler does not expect: the database cannot be reached
Failures ==
    {[type |-> "OperationalError", message |-> "unable to open database file"],
     [type |-> "TimeoutError", message |-> "QueuePool limit reached"]}

\* the handler main.py registers for Exception; the message of the exception goes
\* into the answer when settings.DEBUG is set, its class name always
global_exception_handler(exc) ==
    Answer(HTTP_500_INTERNAL_SERVER_ERROR,
           <<Item("error", "message", "Internal server error"),
             Item("detail", "message",
                  IF settings.DEBUG THEN exc.message ELSE "An unexpected error occurred"),
             Item("type", "message", exc.type)>>)

\* what the process logs of an exception no handler expected
exception_log(exc) == <<Item("Unhandled exception", "message", exc.message)>>

\* The configurations the process starts with.  config.py refuses to start in
\* production with the JWT_SECRET it ships; DEBUG set in production is a warning.
Configurations ==
    {[JWT_SECRET |-> DefaultSecret, ENVIRONMENT |-> "development", DEBUG |-> d] :
        d \in BOOLEAN}
    \cup {[JWT_SECRET |-> RotatedSecret, ENVIRONMENT |-> "production", DEBUG |-> d] :
        d \in BOOLEAN}

\* passwords clients register with: one that meets every rule, one without a special
\* character, one without an uppercase letter
NoSpecialPassword == <<"P", "a", "s", "s", "w", "o", "r", "d", "1", "2">>
LowercasePassword == <<"p", "a", "s", "s", "w", "o", "r", "d", "1", "!">>
RegisterPasswords == {StrongPassword, NoSpecialPassword, LowercasePassword}

AccountInit ==
    /\ users \in SeedAccounts
    /\ now = StartTime
    /\ settings \in Configurations
    /\ held = None
    /\ req = IdleRequest
    /\ call = NoCall
    /\ inflight = {}
    /\ providers = <<>>

\* the smallest number no request in flight has
FreeClient == CHOOSE c \in 1..MaxInflight :
                 /\ \A r \in inflight : r.client # c
                 /\ \A d \in 1..(c - 1) : \E r \in inflight : r.client = d

\* a client sends POST /register; the request waits for its database session
SubmitRegister ==
    /\ Quiet /\ call = NoCall
    /\ Cardinality(inflight) < MaxInflight
    /\ \E email \in Emails, password \in RegisterPasswords :
          inflight' = inflight \cup {[client |-> FreeClient, route |-> "register",
                                      email |-> email, password |-> password]}
    /\ UNCHANGED <<users, now, held, req, call, settings, providers>>

\* the handler of one waiting request runs from validation to the answer; handlers
\* are coroutines that never suspend, so no other request runs in between
RegisterRuns ==
    /\ Quiet /\ call = NoCall
    /\ \E r \in inflight, salt \in Salts :
          LET out == register_request(users, r.email, r.password, salt, now) IN
          /\ DOMAIN out.table \subseteq 1..MaxId
          /\ users' = out.table
          /\ call' = [op |-> "register", email |-> r.email, password |-> r.password,
                      response |-> out.response, logged |-> out.logged]
          /\ inflight' = inflight \ {r}
    /\ UNCHANGED <<now, held, req, settings, providers>>

\* the database cannot be reached when the handler of a waiting request, whose body
\* is valid, runs its first query
RegisterFails ==
    /\ Quiet /\ call = NoCall
    /\ \E r \in inflight, exc \in Failures :
          /\ UserRegister_password(r.password) = None
          /\ call' = [op |-> "failure", email |-> r.email, password |-> r.password,
                      exc |-> exc, response |-> global_exception_handler(exc),
                      logged |-> exception_log(exc)]
          /\ inflight' = inflight \ {r}
    /\ UNCHANGED <<users, now, held, req, settings, providers>>

\* POST /login
LoginRuns ==
    /\ Quiet /\ call = NoCall
    /\ \E email \in LoginEmails, password \in LoginPasswords :
          LET out == login_request(users, email, password, now) IN
          call' = [op |-> "login", email |-> email, password |-> password,
                   response |-> out.response, logged |-> out.logged]
    /\ UNCHANGED <<users, now, held, req, settings, inflight, providers>>

\* get_current_user lets in a request to PUT /profile or DELETE /account that
\* carries the token of a stored account
Authenticated ==
    /\ Quiet /\ call = NoCall
    /\ \E i \in DOMAIN users, route \in {"update_profile", "delete_account"} :
          req' = [IdleRequest EXCEPT !.pc = "Authorized", !.route = route,
                                     !.user = Some(users[i]), !.by = "get_current_user"]
    /\ UNCHANGED <<users, now, held, call, settings, inflight, providers>>

\* the client has the answer; the next request is served
AnswerTaken ==
    /\ call # NoCall
    /\ call' = NoCall
    /\ UNCHANGED <<users, now, held, req, settings, inflight, providers>>

AccountNext ==
    \/ SubmitRegister
    \/ RegisterRuns
    \/ RegisterFails
    \/ LoginRuns
    \/ Authenticated
    \/ update_profile
    \/ delete_account
    \/ Respond
    \/ AnswerTaken

AccountSpec == AccountInit /\ [][AccountNext]_vars

\* the fields of a body or of a log line that carry the submitted password
Discloses(items, password) ==
    \E i \in DOMAIN items : items[i].src = "password" /\ items[i].value = password

\* every token in a body has the four claims of create_user_token and no other
TokensCarryNoPassword(items) ==
    \A i \in DOMAIN items :
       items[i].src = "token" =>
          DOMAIN items[i].value[1].payload = {"user_id", "email", "role", "exp"}

\* the values hash_password returns for the passwords clients submit
StoredHashes ==
    {hash_password(p, s) : p \in RegisterPasswords \cup {RootPassword},
                           s \in Salts \cup {"salt0"}}

\* C23: the plaintext password is never persisted or logged: after any sequence of
\* register and login requests no field of a user record, no payload of an issued
\* token, no response body and no log line holds a submitted plaintext password,
\* and the user record holds only the value hash_password returned.
C23_PlaintextNeverDisclosed ==
    /\ \A i \in DOMAIN users :
          /\ DOMAIN users[i] = {"id", "email", "password_hash", "role"}
          /\ users[i].password_hash \in StoredHashes
    /\ call.op \in {"register", "login"} =>
          /\ ~Discloses(call.response.body, call.password)
          /\ ~Discloses(call.logged, call.password)
          /\ TokensCarryNoPassword(call.response.body)

\* a registration with a password the schema refuses is answered 422 with the
\* password in the body
C23_ValidationErrorRepeatsPassword ==
    /\ call.op = "register"
    /\ call.response.status_code = HTTP_422_UNPROCESSABLE_ENTITY
    /\ Discloses(call.response.body, call.password)

\* the values of the fields of a body
BodyValues(body) == {body[i].value : i \in DOMAIN body}

\* C24: in the production configuration (ENVIRONMENT = production) an unexpected
\* failure is answered with a generic failure that shows the client nothing
\* internal: the answer holds neither the message of the exception nor the name of
\* its type.
C24_NoInternalDetailInProduction ==
    (call.op = "failure" /\ settings.ENVIRONMENT = "production") =>
        /\ call.response.status_code = HTTP_500_INTERNAL_SERVER_ERROR
        /\ call.exc.message \notin BodyValues(call.response.body)
        /\ call.exc.type \notin BodyValues(call.response.body)

\* in production with DEBUG off, the answer to an unexpected failure names the class
\* of the exception
C24_TypeNameInProduction ==
    /\ call.op = "failure"
    /\ settings.ENVIRONMENT = "production"
    /\ ~settings.DEBUG
    /\ call.exc.message \notin BodyValues(call.response.body)
    /\ call.exc.type \in BodyValues(call.response.body)

\* no two stored users have the same email
UniqueEmails ==
    \A i \in DOMAIN users, j \in DOMAIN users : users[i].email = users[j].email => i = j

\* the handler of register has just answered a request whose body was valid
RegisterAnswered ==
    /\ call = NoCall
    /\ call'.op = "register"
    /\ call'.response.status_code # HTTP_422_UNPROCESSABLE_ENTITY

\* C26: emails stay unique under concurrency: however the register requests that
\* carry one email interleave, the handler that runs first stores the user and each
\* of the others is answered 400 "Email already registered" and stores nothing;
\* after any sequence of register, update_profile and delete_account requests no
\* two stored users share an email.
C26_EmailsUnique ==
    /\ []UniqueEmails
    /\ [][RegisterAnswered =>
             IF FindByEmail(users, call'.email) # None
             THEN /\ users' = users
                  /\ call'.response =
                        Answer(HTTP_400_BAD_REQUEST,
                               <<Item("detail", "message", "Email already registered")>>)
             ELSE /\ call'.response.status_code = HTTP_201_CREATED
                  /\ Cardinality(DOMAIN users') = Cardinality(DOMAIN users) + 1
                  /\ \A i \in DOMAIN users : users'[i] = users[i]
                  /\ FindByEmail(users', call'.email) # None]_vars

\* two requests with one email and valid bodies were in flight together: the handler
\* of one has stored its user, and the other still waits for its turn
C26_Witness ==
    /\ call.op = "register"
    /\ call.response.status_code = HTTP_201_CREATED
    /\ Cardinality({i \in DOMAIN users : users[i].email = call.email}) = 1
    /\ \E r \in inflight :
          /\ r.email = call.email
          /\ UserRegister_password(r.password) = None

\* C29: registration enforces the policy of validate_password_strength: register
\* stores a user only for a password validate_password_strength accepts, and each
\* password it rejects, one without a special character included, is refused by
\* registration as a weak password.
C29_RegistrationEnforcesPolicy ==
    call.op = "register" =>
        /\ call.response.status_code = HTTP_201_CREATED
              => validate_password_strength(call.password)[1]
        /\ ~validate_password_strength(call.password)[1]
              => call.response.status_code = HTTP_422_UNPROCESSABLE_ENTITY

\* a user was stored with a password validate_password_strength rejects for want of
\* a special character
C29_NoSpecialCharacterStored ==
    /\ call.op = "register"
    /\ call.response.status_code = HTTP_201_CREATED
    /\ validate_password_strength(call.password) =
          <<FALSE, "Password must contain at least one special character">>
    /\ \E i \in DOMAIN users :
          /\ users[i].email = call.email
          /\ verify_password(call.password, users[i].password_hash)

\* the claims of the token a request carried to get_current_user
TokenClaims == req.credentials[1].payload

\* C28: the role that decides between Authorized and Forbidden is the role stored on
\* the user record at the time of the request, not the role claim of the token: a
\* validly signed token with the role claim "admin" for a user stored with the role
\* USER is Forbidden by get_current_admin and by require_role(ADMIN), and the
\* identity the route gets has the stored email and role even where the claims of
\* the token differ.
C28_StoredRoleDecides ==
    /\ (ByGetCurrentUser /\ req.pc \in {"Authorized", "Identity"}) =>
          req.user = Some(users[TokenClaims.user_id])
    /\ (req.by = "get_current_admin" /\ req.pc \in Terminal) =>
          /\ req.user = Some(users[TokenClaims.user_id])
          /\ req.pc = (IF users[TokenClaims.user_id].role = ADMIN
                       THEN "Authorized" ELSE "Forbidden")
    /\ (req.by = "role_checker" /\ req.pc \in Terminal) =>
          /\ req.user = Some(users[TokenClaims.user_id])
          /\ req.pc = (IF users[TokenClaims.user_id].role \in req.allowed
                       THEN "Authorized" ELSE "Forbidden")

\* a token issued by the application with the role claim "admin" and another email
\* than the stored one is turned away by get_current_admin: the stored role is USER
C28_Witness ==
    /\ req.by = "get_current_admin"
    /\ req.pc = "Forbidden"
    /\ IsUserToken(req.credentials)
    /\ TokenClaims.role = ADMIN
    /\ users[TokenClaims.user_id].role = USER
    /\ users[TokenClaims.user_id].email # TokenClaims.email
    /\ req.user = Some(users[TokenClaims.user_id])

\* the ids of the stored users that pass get_current_admin
Admins(table) == {i \in DOMAIN table : ~get_current_admin(table[i]).raised}

\* C30: the auth routes give no privilege: every user register creates has the role
\* USER, and no register, login, update_profile or delete_account request changes
\* the role of a stored user, so the set of users that pass get_current_admin never
\* grows through these routes.
C30_NoPrivilegeEscalation ==
    [][/\ \A i \in DOMAIN users' :
             IF i \in DOMAIN users
             THEN users'[i].role = users[i].role
             ELSE users'[i].role = USER
       /\ Admins(users') \subseteq Admins(users)]_vars

\* an account that is not an administrator has changed its email through
\* update_profile, beside an account register created, and no stored user passes
\* get_current_admin
C30_Witness ==
    /\ req.route = "update_profile"
    /\ req.handled
    /\ req.response = None
    /\ req.user[1].role = GUEST
    /\ users[req.user[1].id].email # req.user[1].email
    /\ users[req.user[1].id].role = GUEST
    /\ \E i \in DOMAIN users : users[i].role = USER
    /\ Admins(users) = {}

(***************************************************************************)
(* Concurrent authorization evaluations: several requests to guarded       *)
(* routes in flight at a time, each running the dependencies of its route  *)
(***************************************************************************)
\* the routes of the concurrent requests, and the headers they carry: none, the token
\* of the account with id 1, a forged token
GuardedRoutes == {"get_profile", "admin_route", "role_route", "guest_route"}
GuardHeaders == {NoAuthorization, BearerHeader(ForgedToken)}
                \cup {BearerHeader(k) : k \in Held(held)}

\* the database holds one account or none; a client holds the token login issued
\* for the account with id 1
GuardInit ==
    /\ users \in SeedAccounts
    /\ now = StartTime
    /\ settings = [JWT_SECRET |-> DefaultSecret]
    /\ held = Some(create_user_token(1, "root@b.com", ADMIN, StartTime))
    /\ req = IdleRequest
    /\ call = NoCall
    /\ inflight = {}
    /\ providers = <<>>

\* the credentials an evaluation works with are those of its own request, whatever
\* other requests are in flight
current_credentials_Shared(r, pending) ==
    IF \E o \in pending : o # r /\ o.pc = "Credential"
    THEN (CHOOSE o \in pending : o # r /\ o.pc = "Credential").credentials
    ELSE r.credentials

\* token = credentials.credentials
current_credentials(r, pending) == r.credentials

\* the answer of the dependency of a route to a request, evaluated on its own
Alone(route, allowed, authorization, refusal, table, t) ==
    CASE Guard(route) = "required" -> required_user(authorization, refusal, table, t)
      [] Guard(route) = "admin" -> required_admin(authorization, refusal, table, t)
      [] Guard(route) = "role" -> required_role(allowed, authorization, refusal, table, t)
      [] OTHER -> get_optional_user(authorization, table, t)

Evaluation(r, result) ==
    [op |-> "evaluation", route |-> r.route, allowed |-> r.allowed,
     authorization |-> r.authorization, result |-> result]

\* a request to a guarded route arrives
SubmitGuarded ==
    /\ call = NoCall
    /\ Cardinality(inflight) < MaxInflight
    /\ \E route \in GuardedRoutes, authorization \in GuardHeaders,
          allowed \in AllowedRoleSets :
          /\ Guard(route) # "role" => allowed = {ADMIN}
          /\ inflight' = inflight \cup
                {[client |-> FreeClient, route |-> route, allowed |-> allowed,
                  authorization |-> authorization, pc |-> "NoCredential",
                  credentials |-> <<>>]}
    /\ UNCHANGED <<users, now, held, req, call, settings, providers>>

\* Depends(security) of one request; the request then waits for its session
SecurityRuns ==
    /\ call = NoCall
    /\ \E r \in inflight, refusal \in BearerRefusals :
          /\ r.pc = "NoCredential"
          /\ Guard(r.route) # "optional"
          /\ LET c == HTTPBearer(r.authorization, refusal) IN
             IF c.raised
             THEN /\ call' = Evaluation(r, c)
                  /\ inflight' = inflight \ {r}
             ELSE /\ inflight' = (inflight \ {r}) \cup
                        {[r EXCEPT !.pc = "Credential", !.credentials = c.value]}
                  /\ UNCHANGED call
    /\ UNCHANGED <<users, now, held, req, settings, providers>>

\* get_current_user of one request and, on its result, get_current_admin or the
\* role_checker of the route: coroutines that run without suspending
GuardRuns ==
    /\ call = NoCall
    /\ \E r \in inflight :
          /\ r.pc = "Credential"
          /\ LET u == get_current_user(current_credentials(r, inflight), users, now)
                 result == IF u.raised \/ Guard(r.route) = "required" THEN u
                           ELSE IF Guard(r.route) = "admin" THEN get_current_admin(u.value)
                           ELSE role_checker(r.allowed, u.value)
             IN  /\ call' = Evaluation(r, result)
                 /\ inflight' = inflight \ {r}
    /\ UNCHANGED <<users, now, held, req, settings, providers>>

\* get_optional_user of one request
OptionalRuns ==
    /\ call = NoCall
    /\ \E r \in inflight :
          /\ r.pc = "NoCredential"
          /\ Guard(r.route) = "optional"
          /\ call' = Evaluation(r, get_optional_user(r.authorization, users, now))
          /\ inflight' = inflight \ {r}
    /\ UNCHANGED <<users, now, held, req, settings, providers>>

\* the handler of some other request deletes the stored account
AccountRemoved ==
    /\ call = NoCall
    /\ users # EmptyTable
    /\ users' = EmptyTable
    /\ UNCHANGED <<now, held, req, call, settings, inflight, providers>>

\* time passes while requests wait
GuardTick ==
    /\ call = NoCall
    /\ now < StartTime + MaxTime
    /\ now' = now + 1
    /\ UNCHANGED <<users, held, req, call, settings, inflight, providers>>

GuardNext ==
    \/ SubmitGuarded
    \/ SecurityRuns
    \/ GuardRuns
    \/ OptionalRuns
    \/ AccountRemoved
    \/ GuardTick
    \/ AnswerTaken

GuardSpec == GuardInit /\ [][GuardNext]_vars

\* a step of an authorization evaluation: a request arrives, or a dependency runs
EvaluationStep == inflight' # inflight

\* C25: authorization evaluations are independent and free of side effects:
\* get_current_user, get_current_admin, get_optional_user and require_role write
\* neither the user store nor the signing configuration, and however concurrent
\* evaluations interleave, each request gets the outcome it would get evaluated
\* alone with the same token, time and state of the user store.
C25_EvaluationsIndependent ==
    /\ [][EvaluationStep =>
             /\ UNCHANGED <<users, settings, now, held, providers>>
             /\ Cardinality(inflight \ inflight') <= 1
             /\ Cardinality(inflight' \ inflight) <= 1]_vars
    /\ [](call.op = "evaluation" =>
             \E refusal \in BearerRefusals :
                call.result = Alone(call.route, call.allowed, call.authorization,
                                    refusal, users, now))

\* a request with the token of the account was answered while a request with a
\* forged token was in flight, past Depends(security), and was let in as the account
C25_Witness ==
    /\ call.op = "evaluation"
    /\ call.authorization \in {BearerHeader(k) : k \in Held(held)}
    /\ ~call.result.raised
    /\ \E o \in inflight :
          /\ o.pc = "Credential"
          /\ o.credentials = ForgedToken

(***************************************************************************)
(* The AI service: services/ai_service.py                                  *)
(***************************************************************************)
GEMINI == "gemini"
GROQ == "groq"
HUGGINGFACE == "huggingface"

\* the order in which __init__ looks at the providers
ProviderOrder == <<GEMINI, GROQ, HUGGINGFACE>>

\* the API keys of a configuration: empty, or set
ApiKeys == {"", "key"}
AIConfigurations ==
    {[JWT_SECRET |-> DefaultSecret, GEMINI_API_KEY |-> g, GROQ_API_KEY |-> q,
      HUGGINGFACE_API_KEY |-> h] : g \in ApiKeys, q \in ApiKeys, h \in ApiKeys}

\* the key settings holds for a provider
ApiKey(config, provider) ==
    CASE provider = GEMINI -> config.GEMINI_API_KEY
      [] provider = GROQ -> config.GROQ_API_KEY
      [] OTHER -> config.HUGGINGFACE_API_KEY

\* AIService.__init__: self.providers holds, in order, Gemini and Groq when their key
\* is set and their SDK imports and configures (sdk is the set of those that do), and
\* Hugging Face when its key is set
AIService_init(config, sdk) ==
    LET Configured(provider) ==
           /\ ApiKey(config, provider) # ""
           /\ provider \in sdk \cup {HUGGINGFACE}
    IN  SelectSeq(ProviderOrder, Configured)

AIInit ==
    /\ users = EmptyTable
    /\ now = StartTime
    /\ settings \in AIConfigurations
    /\ held = None
    /\ req = IdleRequest
    /\ call = NoCall
    /\ inflight = {}
    /\ providers \in {AIService_init(settings, sdk) : sdk \in SUBSET {GEMINI, GROQ}}

Prompts == {"What is a fever?", "Review my resume"}

\* what a provider answers: "" is what _generate_huggingface returns for a result
\* without generated_text
ResponseTexts == {"", "generated text"}

\* the loop of generate_response after a provider has failed: on to the next one,
\* here replaced by another try of the same provider
next_provider_Retries(i) == i

\* except Exception: continue
next_provider(i) == i + 1

\* generate_response(prompt) is called: it raises at once when self.providers is
\* empty, and enters the loop otherwise
CallGenerateResponse ==
    /\ call = NoCall
    /\ \E prompt \in Prompts :
          call' = IF providers = <<>>
                  THEN [op |-> "generate_response", prompt |-> prompt, i |-> 1,
                        attempts |-> <<>>, state |-> "raised", response |-> "",
                        exc |-> "No AI providers configured. Please add API keys to .env file"]
                  ELSE [op |-> "generate_response", prompt |-> prompt, i |-> 1,
                        attempts |-> <<>>, state |-> "running", response |-> "",
                        exc |-> ""]
    /\ UNCHANGED <<users, now, held, req, settings, inflight, providers>>

\* one pass of the loop: the provider at hand answers, and generate_response returns
\* its response; or it fails, and the loop goes on, raising after the last provider
Attempt ==
    /\ call.op = "generate_response"
    /\ call.state = "running"
    /\ \E ok \in BOOLEAN, text \in ResponseTexts :
          LET provider == providers[call.i]
              tried == Append(call.attempts, [provider |-> provider, ok |-> ok])
          IN  call' = IF ok
                      THEN [call EXCEPT !.attempts = tried, !.state = "returned",
                                        !.response = text]
                      ELSE IF next_provider(call.i) > Len(providers)
                      THEN [call EXCEPT !.attempts = tried, !.state = "raised",
                                        !.i = next_provider(call.i),
                                        !.exc = "All AI providers failed. Please check your API keys and internet connection."]
                      ELSE [call EXCEPT !.attempts = tried, !.i = next_provider(call.i)]
    /\ UNCHANGED <<users, now, held, req, settings, inflight, providers>>

\* the caller has the response or the exception
GenerateResponseEnds ==
    /\ call.op = "generate_response"
    /\ call.state \in {"returned", "raised"}
    /\ call' = NoCall
    /\ UNCHANGED <<users, now, held, req, settings, inflight, providers>>

AINext ==
    \/ CallGenerateResponse
    \/ Attempt
    \/ GenerateResponseEnds

\* a provider call that is in progress comes back, with a response or an exception:
\* requests.post is given timeout=30 and the Gemini and Groq clients give up on their
\* own deadline, so the loop goes on to its next pass
AISpec == AIInit /\ [][AINext]_vars /\ WF_vars(Attempt)

\* position of a provider in the fixed order
Rank(provider) == CHOOSE k \in 1..3 : ProviderOrder[k] = provider

\* C27: generate_response tries the configured providers in the fixed order Gemini,
\* Groq, Hugging Face, each at most once in a call; it returns the response of the
\* first provider that succeeds and contacts none after it; it raises only when no
\* provider is configured or every configured provider has failed; and it always
\* ends, after at most three attempts.
C27_Failover ==
    /\ [](call.op = "generate_response" =>
            LET tried == call.attempts IN
            /\ Len(tried) <= 3
            /\ Len(tried) <= Len(providers)
            /\ \A k \in DOMAIN tried : tried[k].provider = providers[k]
            /\ \A k \in DOMAIN tried, l \in DOMAIN tried :
                  k < l => Rank(tried[k].provider) < Rank(tried[l].provider)
            /\ \A k \in DOMAIN tried : k < Len(tried) => ~tried[k].ok
            /\ call.state = "returned" => Len(tried) >= 1 /\ tried[Len(tried)].ok
            /\ call.state = "running" => \A k \in DOMAIN tried : ~tried[k].ok
            /\ call.state = "raised" =>
                  /\ Len(tried) = Len(providers)
                  /\ \A k \in DOMAIN tried : ~tried[k].ok)
    /\ (call.op = "generate_response" /\ call.state = "running")
          ~> (call.op = "generate_response" /\ call.state \in {"returned", "raised"})

\* Gemini and Groq have failed and Hugging Face, the third provider tried, has
\* answered
C27_Witness ==
    /\ call.op = "generate_response"
    /\ call.state = "returned"
    /\ Len(call.attempts) = 3
    /\ call.attempts[1] = [provider |-> GEMINI, ok |-> FALSE]
    /\ call.attempts[2] = [provider |-> GROQ, ok |-> FALSE]
    /\ call.attempts[3] = [provider |-> HUGGINGFACE, ok |-> TRUE]

====
